---- MODULE Spec2Model ----
(***************************************************************************)
(* A model of the elevations populator (elevations_populator/app.py).      *)
(*                                                                         *)
(* One App instance is constructed for one analysis (its configuration     *)
(* and its input cells) and its run() method is invoked.  run() is split   *)
(* into the steps at which it touches the outside world or writes to the   *)
(* elevation map, so that the order of those steps can be stated.          *)
(*                                                                         *)
(* H3 cells are modelled as paths in the aperture-7 tree: a cell is the    *)
(* sequence of child digits (0..6) leading to it from a resolution-0 cell, *)
(* so its resolution is the length of the path.  Coordinates are fixed     *)
(* point numbers, Degree units to one degree.  Elevations are exact        *)
(* rationals <<numerator, denominator>> (floating point rounding is not    *)
(* modelled).                                                              *)
(***************************************************************************)
EXTENDS Integers, Sequences, FiniteSets, TLC

\* ------------------------------------------------------------------ bounds
\* The longest list of input cells an analysis is given.
MaxInputs == 2
\* The number of times run() is invoked on the one App instance.
MaxRuns == 1
\* Fixed point units per degree of latitude or longitude.
Degree == 8

\* --------------------------------------------------------------- utilities
None == <<>>
Some(x) == <<x>>
EmptyMap == [x \in {} |-> 0]

Abs(n) == IF n < 0 THEN -n ELSE n

RECURSIVE GCD(_, _)
GCD(a, b) == IF b = 0 THEN a ELSE GCD(b, a % b)

\* A rational in lowest terms with a positive denominator.
Rat(n, d) == LET g == GCD(Abs(n), d) IN <<n \div g, d \div g>>

RECURSIVE SeqSum(_)
SeqSum(values) ==
    IF values = <<>> THEN <<0, 1>>
    ELSE LET x == Head(values)
             y == SeqSum(Tail(values))
         IN  Rat(x[1] * y[2] + y[1] * x[2], x[2] * y[2])

\* np.mean: the sum of the values over their number.
np_mean(values) == LET s == SeqSum(values) IN Rat(s[1], s[2] * Len(values))

\* math.trunc on a fixed point number: rounds towards zero, in whole degrees.
math_trunc(x) == IF x >= 0 THEN x \div Degree ELSE -((-x) \div Degree)

\* ------------------------------------------------------------- h3 library
h3_get_resolution(cell) == Len(cell)

h3_to_parent(cell) == SubSeq(cell, 1, Len(cell) - 1)

\* The children of a cell, in the order the library lists them.
h3_to_children(cell) == [i \in 1..7 |-> Append(cell, i - 1)]

\* The centrepoint of a cell as <<latitude, longitude>>.  The second digit of
\* the cell places it south (digit 0) or north of the equator and its last
\* digit places it east of the prime meridian.
h3_to_geo(cell) ==
    << (IF Len(cell) >= 2 THEN cell[2] ELSE 0) - 1,
       IF Len(cell) >= 1 THEN cell[Len(cell)] ELSE 0 >>

\* Band 1 of the GLO-30 tile with the given reference coordinate, at a pixel:
\* a ramp south of the equator, and north of it a single spike in a plain.
Band1(reference, row, col) ==
    IF reference[1] < 0 THEN col
    ELSE IF row = 0 THEN (IF col = 0 THEN 1 ELSE 0)
    ELSE 5

\* -------------------------------------------------------------------- state
VARIABLES
    MINIMUM_RESOLUTION,                \* App configuration
    MAXIMUM_RESOLUTION,
    DELETE_DOWNLOADED_TILES_AFTER_RUN,
    h3_cells,                          \* analysis.input_values["h3_cells"]
    tiles,                             \* App._tiles: None or Some(dict)
    downloaded_tile_paths,             \* App._downloaded_tile_paths
    temporary_files,                   \* the temporary files that exist
    created,                           \* temporary files created so far
    pc,                                \* where run() is
    error,                             \* the exception raised in the try block
    cleanup_error,                     \* the exception raised in the finally block
    coordinates,                       \* maximum_resolution_cells_and_coordinates
    to_fetch,                          \* tile references not yet iterated over
    loading,                           \* the dict comprehension being built
    cells_and_elevations,              \* the elevation map
    pyramid,                           \* ancestors_pyramid
    level,                             \* index of the level being averaged
    level_todo,                        \* ancestors of that level not yet visited
    clean_index,                       \* position in the cleanup loop
    runs,                              \* run() invocations so far
    run_base,                          \* len(_downloaded_tile_paths) at run start
    fetch_log,                         \* per tile reference, outcomes of its fetches
    stored,                            \* the maps handed to the storage sink
    remove_attempts,                   \* paths os.remove was called on
    offender,                          \* the cell and resolution a ValueError names
    sample,                            \* result of a direct _get_elevation call
    call                               \* a direct call of a module-level function

vars == << MINIMUM_RESOLUTION, MAXIMUM_RESOLUTION, DELETE_DOWNLOADED_TILES_AFTER_RUN,
           h3_cells, tiles, downloaded_tile_paths, temporary_files, created, pc,
           error, cleanup_error, coordinates, to_fetch, loading,
           cells_and_elevations, pyramid, level, level_todo, clean_index, runs,
           run_base, fetch_log, stored, remove_attempts, offender, sample, call >>

config == << MINIMUM_RESOLUTION, MAXIMUM_RESOLUTION,
             DELETE_DOWNLOADED_TILES_AFTER_RUN, h3_cells >>

\* ------------------------------------------------------- cell hierarchy
RECURSIVE walk_up(_, _)
walk_up(cell, minimum_resolution) ==
    IF h3_get_resolution(cell) > minimum_resolution
    THEN <<h3_to_parent(cell)>> \o walk_up(h3_to_parent(cell), minimum_resolution)
    ELSE <<>>

\* A variant that puts the cell itself in front of its ancestors.
ancestors_with_the_cell_itself(cell, minimum_resolution) ==
    <<cell>> \o walk_up(cell, minimum_resolution)

get_ancestors_up_to_minimum_resolution(cell, minimum_resolution) ==
    IF h3_get_resolution(cell) = minimum_resolution THEN <<cell>>
    ELSE walk_up(cell, minimum_resolution)

\* A variant that goes down one level only.
children_or_the_cell_itself(cell, maximum_resolution) ==
    IF h3_get_resolution(cell) = maximum_resolution THEN {cell}
    ELSE { h3_to_children(cell)[i] : i \in 1..7 }

RECURSIVE get_descendents_down_to_maximum_resolution(_, _)
get_descendents_down_to_maximum_resolution(cell, maximum_resolution) ==
    IF h3_get_resolution(cell) = maximum_resolution THEN {cell}
    ELSE UNION { get_descendents_down_to_maximum_resolution(
                     h3_to_children(cell)[i], maximum_resolution) : i \in 1..7 }

\* A variant that stops one level short of the minimum resolution.
pyramid_without_last_level(cells, minimum_resolution) ==
    LET lists == [c \in cells |->
                     get_ancestors_up_to_minimum_resolution(c, minimum_resolution)]
        n == IF cells = {} THEN 0
             ELSE CHOOSE k \in {Len(lists[c]) : c \in cells} :
                      \A c \in cells : k <= Len(lists[c])
    IN  [i \in 1..(IF n > 0 THEN n - 1 ELSE 0) |-> {lists[c][i] : c \in cells}]

\* zip(*lists): as many levels as the shortest list has elements.
get_ancestors_up_to_minimum_resolution_as_pyramid(cells, minimum_resolution) ==
    LET lists == [c \in cells |->
                     get_ancestors_up_to_minimum_resolution(c, minimum_resolution)]
        n == IF cells = {} THEN 0
             ELSE CHOOSE k \in {Len(lists[c]) : c \in cells} :
                      \A c \in cells : k <= Len(lists[c])
    IN  [i \in 1..n |-> {lists[c][i] : c \in cells}]

\* ------------------------------------------------------------------ tiles
get_tile_reference_coordinate(latitude, longitude) ==
    LET lat == IF latitude < 0 THEN latitude - Degree ELSE latitude
        lng == IF longitude < 0 THEN longitude - Degree ELSE longitude
    IN  <<math_trunc(lat), math_trunc(lng)>>

\* _get_elevation: <<"ok", elevation>> or <<"raise", exception>>.
get_elevation(the_tiles, latitude, longitude) ==
    LET reference == get_tile_reference_coordinate(latitude, longitude)
    IN  IF the_tiles = None THEN <<"raise", "TypeError">>
        ELSE IF reference \notin DOMAIN the_tiles[1] THEN <<"raise", "KeyError">>
        ELSE LET tile == the_tiles[1][reference]
                 row == latitude - tile[1][1] * Degree
                 col == longitude - tile[1][2] * Degree
             IN  IF tile = None THEN <<"raise", "AttributeError">>
                 ELSE IF row \notin 0..(Degree - 1) \/ col \notin 0..(Degree - 1)
                      THEN <<"raise", "IndexError">>
                 ELSE <<"ok", <<Band1(tile[1], row, col), 1>> >>

\* A variant that catches every failure of the download and returns no tile.
download_swallowing_failures(latitude, longitude, outcome) ==
    CASE outcome = "ok" ->
            [registered |-> TRUE, raised |-> "none", tile |-> Some(<<latitude, longitude>>)]
      [] outcome \in {"not_found", "transport_failure"} ->
            [registered |-> FALSE, raised |-> "none", tile |-> None]
      [] outcome = "unreadable" ->
            [registered |-> TRUE, raised |-> "RasterioIOError", tile |-> None]

\* _download_and_load_elevation_tile for one reference coordinate, given what
\* the object store and the raster library do: whether the temporary file is
\* registered, the exception raised ("none" if none) and the tile returned.
\* The temporary file is created in every case.
download_and_load_elevation_tile(latitude, longitude, outcome) ==
    CASE outcome = "ok" ->
            [registered |-> TRUE, raised |-> "none", tile |-> Some(<<latitude, longitude>>)]
      [] outcome = "not_found" ->
            [registered |-> FALSE, raised |-> "ClientError404", tile |-> None]
      [] outcome = "transport_failure" ->
            [registered |-> FALSE, raised |-> "TransportError", tile |-> None]
      [] outcome = "unreadable" ->
            [registered |-> TRUE, raised |-> "RasterioIOError", tile |-> None]

FetchOutcomes == {"ok", "not_found", "transport_failure", "unreadable"}

\* -------------------------------------------------------------- the run
NoOffender == [cell |-> <<>>, resolution |-> -1]

\* No direct call of _get_elevation has been made.
NoSample == [latitude |-> 0, longitude |-> 0, outcome |-> "none", value |-> <<0, 1>>,
             exception |-> "none"]

\* No module-level function has been called directly.
NoCall == [function |-> "none", arguments |-> <<>>, returned |-> None,
           raised |-> "none", recursed |-> FALSE]

InputCells == { <<0>>, <<0, 0>>, <<0, 1, 3>>, <<0, 0, 0, 0>> }

InputLists == UNION { [1..n -> InputCells] : n \in 0..MaxInputs }

Init ==
    /\ MINIMUM_RESOLUTION \in 1..3
    /\ MAXIMUM_RESOLUTION \in MINIMUM_RESOLUTION..3
    /\ DELETE_DOWNLOADED_TILES_AFTER_RUN \in BOOLEAN
    /\ h3_cells \in InputLists
    /\ tiles = None
    /\ downloaded_tile_paths = <<>>
    /\ temporary_files = {}
    /\ created = 0
    /\ pc = "idle"
    /\ error = "none"
    /\ cleanup_error = "none"
    /\ coordinates = EmptyMap
    /\ to_fetch = {}
    /\ loading = EmptyMap
    /\ cells_and_elevations = EmptyMap
    /\ pyramid = <<>>
    /\ level = 0
    /\ level_todo = {}
    /\ clean_index = 1
    /\ runs = 0
    /\ run_base = 0
    /\ fetch_log = EmptyMap
    /\ stored = <<>>
    /\ remove_attempts = <<>>
    /\ offender = NoOffender
    /\ sample = NoSample
    /\ call = NoCall

\* run() is entered: its locals are fresh, the App's fields are as they were.
enter_run ==
    /\ pc \in {"idle", "done"}
    /\ runs' = runs + 1
    /\ pc' = "validating"
    /\ error' = "none"
    /\ cleanup_error' = "none"
    /\ coordinates' = EmptyMap
    /\ to_fetch' = {}
    /\ loading' = EmptyMap
    /\ cells_and_elevations' = EmptyMap
    /\ pyramid' = <<>>
    /\ level' = 0
    /\ level_todo' = {}
    /\ clean_index' = 1
    /\ run_base' = Len(downloaded_tile_paths)
    /\ fetch_log' = EmptyMap
    /\ stored' = <<>>
    /\ remove_attempts' = <<>>
    /\ offender' = NoOffender
    /\ UNCHANGED << config, tiles, downloaded_tile_paths, temporary_files, created, sample, call >>

StartRun == runs < MaxRuns /\ enter_run

\* A variant that also rejects the cells of exactly the two bounds.
out_of_range_excluding_bounds(cells) ==
    { i \in 1..Len(cells) :
        \/ h3_get_resolution(cells[i]) <= MINIMUM_RESOLUTION
        \/ h3_get_resolution(cells[i]) >= MAXIMUM_RESOLUTION }

\* A variant that looks at the first cell only.
out_of_range_first_only(cells) ==
    { i \in 1..Len(cells) :
        /\ i = 1
        /\ \/ h3_get_resolution(cells[i]) < MINIMUM_RESOLUTION
           \/ h3_get_resolution(cells[i]) > MAXIMUM_RESOLUTION }

\* The cells _validate_cells rejects, by position in the input.
out_of_range(cells) ==
    { i \in 1..Len(cells) :
        \/ h3_get_resolution(cells[i]) < MINIMUM_RESOLUTION
        \/ h3_get_resolution(cells[i]) > MAXIMUM_RESOLUTION }

validate_cells ==
    /\ pc = "validating"
    /\ LET bad == out_of_range(h3_cells)
       IN  IF bad = {}
           THEN /\ pc' = "expanding"
                /\ UNCHANGED << error, offender >>
           ELSE LET first == CHOOSE i \in bad : \A j \in bad : i <= j
                IN  /\ error' = "ValueError"
                    /\ offender' = [cell |-> h3_cells[first],
                                    resolution |-> h3_get_resolution(h3_cells[first])]
                    /\ pc' = "cleaning"
    /\ UNCHANGED << config, tiles, downloaded_tile_paths, temporary_files, created,
                    cleanup_error, coordinates, to_fetch, loading, cells_and_elevations,
                    pyramid, level, level_todo, clean_index, runs, run_base, fetch_log,
                    stored, remove_attempts, sample, call >>

Last(s) == s[Len(s)]

get_maximum_resolution_descendent_centrepoint_coordinates(cells) ==
    LET descendents == UNION { get_descendents_down_to_maximum_resolution(
                                   cell, MAXIMUM_RESOLUTION) : cell \in cells }
    IN  [descendent \in descendents |-> h3_to_geo(descendent)]

\* A variant that takes the ancestor of the first input cell only.
minimum_resolution_ancestor_of_first_cell(cells) ==
    { Last(get_ancestors_up_to_minimum_resolution(cells[i], MINIMUM_RESOLUTION)) :
        i \in 1..(IF Len(cells) > 0 THEN 1 ELSE 0) }

\* The set comprehension of run(): the last of the ancestors of every cell.
minimum_resolution_ancestors(cells) ==
    { Last(get_ancestors_up_to_minimum_resolution(cells[i], MINIMUM_RESOLUTION)) :
        i \in 1..Len(cells) }

\* A variant that also asks for the tile to the north of each coordinate's tile.
tile_reference_coordinates_with_neighbours(found) ==
    UNION { { get_tile_reference_coordinate(found[c][1], found[c][2]),
              get_tile_reference_coordinate(found[c][1] + Degree, found[c][2]) } :
              c \in DOMAIN found }

\* A variant that asks for the tiles north of the equator only.
tile_reference_coordinates_north_of_equator(found) ==
    { get_tile_reference_coordinate(found[c][1], found[c][2]) :
        c \in { d \in DOMAIN found : found[d][1] >= 0 } }

\* The set comprehension of _download_and_load_elevation_tiles: the reference
\* coordinates of the tiles containing the coordinates, each of them once.
tile_reference_coordinates(found) ==
    { get_tile_reference_coordinate(found[c][1], found[c][2]) : c \in DOMAIN found }

\* The minimum resolution ancestors, their maximum resolution descendents with
\* their centrepoints, and the deduplicated tile references of those.
expand ==
    /\ pc = "expanding"
    /\ LET found == get_maximum_resolution_descendent_centrepoint_coordinates(
                        minimum_resolution_ancestors(h3_cells))
       IN  /\ coordinates' = found
           /\ to_fetch' = tile_reference_coordinates(found)
    /\ loading' = EmptyMap
    /\ pc' = "downloading"
    /\ UNCHANGED << config, tiles, downloaded_tile_paths, temporary_files, created, error,
                    cleanup_error, cells_and_elevations, pyramid, level, level_todo,
                    clean_index, runs, run_base, fetch_log, stored, remove_attempts,
                    offender, sample, call >>

\* One iteration of the dict comprehension of _download_and_load_elevation_tiles.
download_tile(reference, outcome) ==
    /\ pc = "downloading"
    /\ reference \in to_fetch
    /\ LET got == download_and_load_elevation_tile(reference[1], reference[2], outcome)
           path == created + 1
       IN  /\ created' = path
           /\ temporary_files' = temporary_files \cup {path}
           /\ downloaded_tile_paths' =
                  IF got.registered THEN Append(downloaded_tile_paths, path)
                  ELSE downloaded_tile_paths
           /\ fetch_log' =
                  [r \in DOMAIN fetch_log \cup {reference} |->
                      IF r = reference
                      THEN Append(IF r \in DOMAIN fetch_log THEN fetch_log[r] ELSE <<>>, outcome)
                      ELSE fetch_log[r]]
           /\ IF got.raised = "none"
              THEN /\ loading' = (reference :> got.tile) @@ loading
                   /\ to_fetch' = to_fetch \ {reference}
                   /\ UNCHANGED << pc, error >>
              ELSE /\ error' = got.raised
                   /\ pc' = "cleaning"
                   /\ UNCHANGED << loading, to_fetch >>
    /\ UNCHANGED << config, tiles, cleanup_error, coordinates, cells_and_elevations,
                    pyramid, level, level_todo, clean_index, runs, run_base, stored,
                    remove_attempts, offender, sample, call >>

\* The comprehension is complete: self._tiles is assigned.
assign_tiles ==
    /\ pc = "downloading"
    /\ to_fetch = {}
    /\ tiles' = Some(loading)
    /\ pc' = "sampling"
    /\ UNCHANGED << config, downloaded_tile_paths, temporary_files, created, error,
                    cleanup_error, coordinates, to_fetch, loading, cells_and_elevations,
                    pyramid, level, level_todo, clean_index, runs, run_base, fetch_log,
                    stored, remove_attempts, offender, sample, call >>

get_elevations ==
    /\ pc = "sampling"
    /\ LET results == [c \in DOMAIN coordinates |->
                          get_elevation(tiles, coordinates[c][1], coordinates[c][2])]
           failed == { c \in DOMAIN coordinates : results[c][1] = "raise" }
       IN  IF failed = {}
           THEN /\ cells_and_elevations' = [c \in DOMAIN coordinates |-> results[c][2]]
                /\ pc' = "aggregating"
                /\ UNCHANGED error
           ELSE /\ \E c \in failed : error' = results[c][2]
                /\ pc' = "cleaning"
                /\ UNCHANGED cells_and_elevations
    /\ UNCHANGED << config, tiles, downloaded_tile_paths, temporary_files, created,
                    cleanup_error, coordinates, to_fetch, loading, pyramid, level,
                    level_todo, clean_index, runs, run_base, fetch_log, stored,
                    remove_attempts, offender, sample, call >>

\* The first statement of the aggregation: the pyramid of the map's keys.
build_pyramid ==
    /\ pc = "aggregating"
    /\ level = 0
    /\ LET built == get_ancestors_up_to_minimum_resolution_as_pyramid(
                        DOMAIN cells_and_elevations, MINIMUM_RESOLUTION)
       IN  /\ pyramid' = built
           /\ IF Len(built) = 0
              THEN /\ pc' = "storing"
                   /\ UNCHANGED << level, level_todo >>
              ELSE /\ level' = 1
                   /\ level_todo' = built[1]
                   /\ UNCHANGED pc
    /\ UNCHANGED << config, tiles, downloaded_tile_paths, temporary_files, created, error,
                    cleanup_error, coordinates, to_fetch, loading, cells_and_elevations,
                    clean_index, runs, run_base, fetch_log, stored, remove_attempts,
                    offender, sample, call >>

\* A variant that reads a child without an entry as sea level.
children_elevations_or_default(elevations, ancestor) ==
    <<"ok", [i \in 1..7 |->
                IF h3_to_children(ancestor)[i] \in DOMAIN elevations
                THEN elevations[h3_to_children(ancestor)[i]]
                ELSE <<0, 1>>]>>

\* The list comprehension over the ancestor's children: their elevations in
\* the map, or the KeyError the first child without an entry raises.
children_elevations(elevations, ancestor) ==
    IF \E i \in 1..7 : h3_to_children(ancestor)[i] \notin DOMAIN elevations
    THEN <<"raise", "KeyError">>
    ELSE <<"ok", [i \in 1..7 |-> elevations[h3_to_children(ancestor)[i]]]>>

\* A variant that adds the elevations up and does not divide.
sum_of_elevations(values) == SeqSum(values)

\* The value the aggregation stores for an ancestor, given those elevations.
average_elevation(values) == np_mean(values)

\* A variant that gives the value to the cell's children as well.
set_elevation_of_cell_and_children(elevations, cell, value) ==
    [c \in DOMAIN elevations \cup {cell} |->
        IF c = cell \/ c \in { h3_to_children(cell)[i] : i \in 1..7 }
        THEN value
        ELSE elevations[c]]

\* The assignment cells_and_elevations[cell] = value.
set_elevation(elevations, cell, value) ==
    [c \in DOMAIN elevations \cup {cell} |-> IF c = cell THEN value ELSE elevations[c]]

\* One iteration of the inner loop of the aggregation, on one ancestor.
add_average_elevation(ancestor) ==
    /\ pc = "aggregating"
    /\ level >= 1
    /\ ancestor \in level_todo
    /\ IF children_elevations(cells_and_elevations, ancestor)[1] = "ok"
       THEN /\ cells_and_elevations' =
                   set_elevation(cells_and_elevations, ancestor,
                                 average_elevation(
                                     children_elevations(cells_and_elevations, ancestor)[2]))
            /\ IF level_todo \ {ancestor} # {}
               THEN /\ level_todo' = level_todo \ {ancestor}
                    /\ UNCHANGED << level, pc >>
               ELSE IF level < Len(pyramid)
               THEN /\ level' = level + 1
                    /\ level_todo' = pyramid[level + 1]
                    /\ UNCHANGED pc
               ELSE /\ level_todo' = {}
                    /\ pc' = "storing"
                    /\ UNCHANGED level
            /\ UNCHANGED error
       ELSE /\ error' = "KeyError"
            /\ pc' = "cleaning"
            /\ UNCHANGED << cells_and_elevations, level, level_todo >>
    /\ UNCHANGED << config, tiles, downloaded_tile_paths, temporary_files, created,
                    cleanup_error, coordinates, to_fetch, loading, pyramid, clean_index,
                    runs, run_base, fetch_log, stored, remove_attempts, offender, sample, call >>

\* A variant that hands the map to the sink a second time if the first raised.
store_elevations_with_retry(outcome) ==
    /\ pc = "storing"
    /\ stored' = Append(stored, cells_and_elevations)
    /\ IF outcome = "raise" /\ stored = <<>>
       THEN UNCHANGED << pc, error >>
       ELSE /\ error' = IF outcome = "raise" THEN "StorageError" ELSE error
            /\ pc' = "cleaning"
    /\ UNCHANGED << config, tiles, downloaded_tile_paths, temporary_files, created,
                    cleanup_error, coordinates, to_fetch, loading, cells_and_elevations,
                    pyramid, level, level_todo, clean_index, runs, run_base, fetch_log,
                    remove_attempts, offender, sample, call >>

\* _store_elevations: the map is handed to the sink, which stores it or raises.
store_elevations(outcome) ==
    /\ pc = "storing"
    /\ stored' = Append(stored, cells_and_elevations)
    /\ error' = IF outcome = "raise" THEN "StorageError" ELSE error
    /\ pc' = "cleaning"
    /\ UNCHANGED << config, tiles, downloaded_tile_paths, temporary_files, created,
                    cleanup_error, coordinates, to_fetch, loading, cells_and_elevations,
                    pyramid, level, level_todo, clean_index, runs, run_base, fetch_log,
                    remove_attempts, offender, sample, call >>

\* Whether the finally block has a path left to remove.
cleanup_pending ==
    /\ DELETE_DOWNLOADED_TILES_AFTER_RUN
    /\ clean_index <= Len(downloaded_tile_paths)

\* One iteration of the cleanup loop: os.remove on the next registered path.
\* It raises if the file is not there, and may raise for the system's reasons.
remove_tile(outcome) ==
    /\ pc = "cleaning"
    /\ cleanup_pending
    /\ LET tile == downloaded_tile_paths[clean_index]
       IN  /\ remove_attempts' = Append(remove_attempts, tile)
           /\ IF outcome = "ok" /\ tile \in temporary_files
              THEN /\ temporary_files' = temporary_files \ {tile}
                   /\ clean_index' = clean_index + 1
                   /\ UNCHANGED << pc, cleanup_error >>
              ELSE /\ outcome = "raise"
                   /\ cleanup_error' = "OSError"
                   /\ pc' = "done"
                   /\ UNCHANGED << temporary_files, clean_index >>
    /\ UNCHANGED << config, tiles, downloaded_tile_paths, created, error, coordinates,
                    to_fetch, loading, cells_and_elevations, pyramid, level, level_todo,
                    runs, run_base, fetch_log, stored, offender, sample, call >>

\* The finally block is over: run() returns, or the exception leaves it.
finish_run ==
    /\ pc = "cleaning"
    /\ ~cleanup_pending
    /\ pc' = "done"
    /\ UNCHANGED << config, tiles, downloaded_tile_paths, temporary_files, created, error,
                    cleanup_error, coordinates, to_fetch, loading, cells_and_elevations,
                    pyramid, level, level_todo, clean_index, runs, run_base, fetch_log,
                    stored, remove_attempts, offender, sample, call >>

Next ==
    \/ StartRun
    \/ validate_cells
    \/ expand
    \/ \E reference \in to_fetch, outcome \in FetchOutcomes : download_tile(reference, outcome)
    \/ assign_tiles
    \/ get_elevations
    \/ build_pyramid
    \/ \E ancestor \in level_todo : add_average_elevation(ancestor)
    \/ \E outcome \in {"ok", "raise"} : store_elevations(outcome)
    \/ \E outcome \in {"ok", "raise"} : remove_tile(outcome)
    \/ finish_run

Spec == Init /\ [][Next]_vars

\* --------------------------------------------- _get_elevation called directly
\* The tile caches a caller can set App._tiles to (as the tests do): each of
\* the two tiles around the origin is absent from the dict, null, or loaded.
SampleReferences == { <<-1, 0>>, <<0, 0>> }

SampleTiles ==
    UNION { [present -> {"null", "loaded"}] : present \in SUBSET SampleReferences }

InitSampler ==
    /\ MINIMUM_RESOLUTION = 1
    /\ MAXIMUM_RESOLUTION = 3
    /\ DELETE_DOWNLOADED_TILES_AFTER_RUN = TRUE
    /\ h3_cells = <<>>
    /\ \E cache \in SampleTiles :
          tiles = Some([r \in DOMAIN cache |->
                           IF cache[r] = "null" THEN None ELSE Some(r)])
    /\ \E latitude \in (-Degree)..(Degree - 1), longitude \in 0..(Degree - 1) :
          sample = [NoSample EXCEPT !.latitude = latitude, !.longitude = longitude]
    /\ downloaded_tile_paths = <<>>
    /\ temporary_files = {}
    /\ created = 0
    /\ pc = "idle"
    /\ error = "none"
    /\ cleanup_error = "none"
    /\ coordinates = EmptyMap
    /\ to_fetch = {}
    /\ loading = EmptyMap
    /\ cells_and_elevations = EmptyMap
    /\ pyramid = <<>>
    /\ level = 0
    /\ level_todo = {}
    /\ clean_index = 1
    /\ runs = 0
    /\ run_base = 0
    /\ fetch_log = EmptyMap
    /\ stored = <<>>
    /\ remove_attempts = <<>>
    /\ offender = NoOffender
    /\ call = NoCall

\* app._get_elevation(latitude, longitude) on the cache as it is.
direct_get_elevation ==
    /\ sample.outcome = "none"
    /\ LET got == get_elevation(tiles, sample.latitude, sample.longitude)
       IN  sample' = IF got[1] = "ok"
                     THEN [sample EXCEPT !.outcome = "ok", !.value = got[2]]
                     ELSE [sample EXCEPT !.outcome = "raise", !.exception = got[2]]
    /\ UNCHANGED << config, tiles, downloaded_tile_paths, temporary_files, created, pc,
                    error, cleanup_error, coordinates, to_fetch, loading,
                    cells_and_elevations, pyramid, level, level_todo, clean_index, runs,
                    run_base, fetch_log, stored, remove_attempts, offender, call >>

NextSampler == direct_get_elevation

SpecSampler == InitSampler /\ [][NextSampler]_vars

\* ------------------------------------------------- run() called a second time
\* The tile references a run on the analysis' input cells asks for.
required_tile_references ==
    tile_reference_coordinates(
        get_maximum_resolution_descendent_centrepoint_coordinates(
            minimum_resolution_ancestors(h3_cells)))

\* The App after a first run() on valid input in which every tile was fetched
\* and opened: the tiles are in self._tiles, their paths are registered, and
\* the cleanup loop has removed the first files of the registry (all of them
\* unless an os.remove raised, none of them if tiles are kept).  The locals of
\* the first run are gone.
InitSecondRun ==
    /\ MINIMUM_RESOLUTION \in 1..3
    /\ MAXIMUM_RESOLUTION \in MINIMUM_RESOLUTION..3
    /\ DELETE_DOWNLOADED_TILES_AFTER_RUN \in BOOLEAN
    /\ h3_cells \in InputLists
    /\ out_of_range(h3_cells) = {}
    /\ tiles = Some([reference \in required_tile_references |-> Some(reference)])
    /\ created = Cardinality(required_tile_references)
    /\ downloaded_tile_paths = [k \in 1..created |-> k]
    /\ \E removed \in 0..created :
          /\ ~DELETE_DOWNLOADED_TILES_AFTER_RUN => removed = 0
          /\ temporary_files = (removed + 1)..created
    /\ pc = "done"
    /\ error = "none"
    /\ cleanup_error = "none"
    /\ coordinates = EmptyMap
    /\ to_fetch = {}
    /\ loading = EmptyMap
    /\ cells_and_elevations = EmptyMap
    /\ pyramid = <<>>
    /\ level = 0
    /\ level_todo = {}
    /\ clean_index = 1
    /\ runs = 1
    /\ run_base = 0
    /\ fetch_log = EmptyMap
    /\ stored = <<>>
    /\ remove_attempts = <<>>
    /\ offender = NoOffender
    /\ sample = NoSample
    /\ call = NoCall

\* run() is invoked once more than Spec invokes it.
StartSecondRun == runs <= MaxRuns /\ enter_run

NextSecondRun ==
    \/ StartSecondRun
    \/ validate_cells
    \/ expand
    \/ \E reference \in to_fetch, outcome \in FetchOutcomes : download_tile(reference, outcome)
    \/ assign_tiles
    \/ get_elevations
    \/ build_pyramid
    \/ \E ancestor \in level_todo : add_average_elevation(ancestor)
    \/ \E outcome \in {"ok", "raise"} : store_elevations(outcome)
    \/ \E outcome \in {"ok", "raise"} : remove_tile(outcome)
    \/ finish_run

SpecSecondRun == InitSecondRun /\ [][NextSecondRun]_vars

\* ------------------------------------- module-level functions called directly
\* The cells the functions of cells.py are called on.
FunctionCells == { <<>>, <<3>>, <<0, 1>>, <<6, 6>>, <<2, 0, 5>>, <<1, 2, 3, 4>> }

\* A function has been entered with the given arguments and has not left yet.
Entered(function, arguments) ==
    [NoCall EXCEPT !.function = function, !.arguments = arguments]

\* The batches of cells the pyramid is built for: none, one cell, siblings and
\* cousins of one resolution.
Batches ==
    { {}, {<<3>>}, {<<0, 1>>, <<0, 2>>, <<3, 4>>},
      {<<2, 0, 5>>, <<2, 0, 6>>, <<2, 1, 0>>, <<1, 1, 1>>},
      {<<1, 2, 3, 4>>, <<1, 2, 3, 5>>} }

\* The resolution the cells of a batch share (0 for the empty batch).
BatchResolution(cells) == IF cells = {} THEN 0 ELSE Len(CHOOSE c \in cells : TRUE)

\* An elevation as numpy computes it, and as float() converts it: the same
\* number as a Python float, the only one of the two json.dump can write.
numpy_float(x) == <<"numpy.float64", x>>

python_float(elevation) == <<"float", elevation[2]>>

\* The maps handed to store_elevations_locally: none, one or two cells.
StoredMaps ==
    { EmptyMap,
      <<2, 0, 5>> :> numpy_float(<<3, 1>>),
      (<<0, 1>> :> numpy_float(<<1, 7>>)) @@ (<<0, 2>> :> numpy_float(<<5, 1>>)) }

\* What is at the path: nothing, text that is not JSON, bytes that are not
\* text in the encoding open() assumes, a JSON object, or a JSON array of
\* [cell, elevation] pairs.
NoFile == [kind |-> "missing", entries |-> <<>>]

Files ==
    { NoFile,
      [kind |-> "unparseable", entries |-> <<>>],
      [kind |-> "undecodable", entries |-> <<>>],
      [kind |-> "object", entries |-> <<>>],
      [kind |-> "array", entries |-> <<>>],
      [kind |-> "array", entries |-> << <<<<3>>, <<"float", <<2, 1>>>>>> >>],
      [kind |-> "array", entries |-> << <<<<6, 6>>, <<"float", <<9, 2>>>>>>,
                                        <<<<3>>, <<"float", <<2, 1>>>>>> >>] }

\* open(path) and json.load: the data, or the exception raised.
json_load(file) ==
    CASE file.kind = "missing" -> <<"raise", "FileNotFoundError">>
      [] file.kind = "unparseable" -> <<"raise", "JSONDecodeError">>
      [] file.kind = "undecodable" -> <<"raise", "UnicodeDecodeError">>
      [] file.kind = "object" -> <<"ok", "dict">>
      [] file.kind = "array" -> <<"ok", file.entries>>

\* open(path, "w") and json.dump: the file written, or, if a value is not of
\* a type JSON has, the exception raised over the truncated file.
json_dump(entries) ==
    IF \E i \in 1..Len(entries) : entries[i][2][1] # "float"
    THEN [raised |-> "TypeError", file |-> [kind |-> "unparseable", entries |-> <<>>]]
    ELSE [raised |-> "none", file |-> [kind |-> "array", entries |-> entries]]

\* store_elevations_locally, the items of the map coming in the given order:
\* the exception raised ("none" if none) and the file it leaves.
store_elevations_locally(elevations, file, order) ==
    LET loaded == json_load(file)
        caught == /\ loaded[1] = "raise"
                  /\ loaded[2] \in {"FileNotFoundError", "JSONDecodeError"}
        persisted_data == IF caught THEN <<>> ELSE loaded[2]
    IN  IF loaded[1] = "raise" /\ ~caught
        THEN [raised |-> loaded[2], file |-> file]
        ELSE IF file.kind = "object"
        THEN [raised |-> "AttributeError", file |-> file]
        ELSE json_dump(persisted_data \o
                       [i \in 1..Len(order) |->
                           <<order[i], python_float(elevations[order[i]])>>])

\* The orders in which the items of a map can come.
ItemOrders(elevations) ==
    { order \in [1..Cardinality(DOMAIN elevations) -> DOMAIN elevations] :
        \A i, j \in DOMAIN order : order[i] = order[j] => i = j }

\* The calls made: a coordinate within two degrees of the origin; a cell with
\* a maximum resolution from one level coarser to two levels finer; a cell
\* with a minimum resolution up to one level finer than its own; a batch with
\* a minimum resolution up to its own.
FunctionCalls ==
    { Entered("get_tile_reference_coordinate", <<latitude, longitude>>) :
          latitude \in (-2 * Degree)..(2 * Degree - 1),
          longitude \in (-2 * Degree)..(2 * Degree - 1) }
    \cup UNION { { Entered("get_descendents_down_to_maximum_resolution",
                           <<cell, maximum_resolution>>) :
                      maximum_resolution \in
                          (IF Len(cell) > 0 THEN Len(cell) - 1 ELSE 0)..(Len(cell) + 2) } :
                 cell \in FunctionCells }
    \cup UNION { { Entered("get_ancestors_up_to_minimum_resolution",
                           <<cell, minimum_resolution>>) :
                      minimum_resolution \in 0..(Len(cell) + 1) } :
                 cell \in FunctionCells }
    \cup UNION { { Entered("get_ancestors_up_to_minimum_resolution_as_pyramid",
                           <<cells, minimum_resolution>>) :
                      minimum_resolution \in 0..BatchResolution(cells) } :
                 cells \in Batches }
    \cup { Entered("store_elevations_locally", <<elevations, file>>) :
              elevations \in StoredMaps, file \in Files }

InitFunctions ==
    /\ MINIMUM_RESOLUTION = 1
    /\ MAXIMUM_RESOLUTION = 3
    /\ DELETE_DOWNLOADED_TILES_AFTER_RUN = TRUE
    /\ h3_cells = <<>>
    /\ tiles = None
    /\ downloaded_tile_paths = <<>>
    /\ temporary_files = {}
    /\ created = 0
    /\ pc = "idle"
    /\ error = "none"
    /\ cleanup_error = "none"
    /\ coordinates = EmptyMap
    /\ to_fetch = {}
    /\ loading = EmptyMap
    /\ cells_and_elevations = EmptyMap
    /\ pyramid = <<>>
    /\ level = 0
    /\ level_todo = {}
    /\ clean_index = 1
    /\ runs = 0
    /\ run_base = 0
    /\ fetch_log = EmptyMap
    /\ stored = <<>>
    /\ remove_attempts = <<>>
    /\ offender = NoOffender
    /\ sample = NoSample
    /\ call \in FunctionCalls

\* The state of the App, which these functions do not touch.
app_state ==
    << config, tiles, downloaded_tile_paths, temporary_files, created, pc, error,
       cleanup_error, coordinates, to_fetch, loading, cells_and_elevations, pyramid,
       level, level_todo, clean_index, runs, run_base, fetch_log, stored,
       remove_attempts, offender, sample >>

call_get_tile_reference_coordinate ==
    /\ call.function = "get_tile_reference_coordinate"
    /\ call.returned = None
    /\ call' = [call EXCEPT !.returned =
                   Some(get_tile_reference_coordinate(call.arguments[1], call.arguments[2]))]
    /\ UNCHANGED app_state

\* What h3_to_children does on a cell of the library's finest resolution, where
\* the recursion ends up if the cell is finer than the maximum resolution: it
\* raises, or it has no child to give.
FinestResolutionOutcomes == {"raise", "no_children"}

\* The function has no case for a cell finer than the maximum resolution: the
\* test for equality fails and it recurses into the children, as it does for a
\* coarser cell, but never meets a cell of the maximum resolution.
call_get_descendents_down_to_maximum_resolution ==
    /\ call.function = "get_descendents_down_to_maximum_resolution"
    /\ call.returned = None
    /\ call.raised = "none"
    /\ LET cell == call.arguments[1]
           maximum_resolution == call.arguments[2]
       IN  IF h3_get_resolution(cell) <= maximum_resolution
           THEN call' = [call EXCEPT
                            !.returned = Some(get_descendents_down_to_maximum_resolution(
                                                  cell, maximum_resolution)),
                            !.recursed = h3_get_resolution(cell) # maximum_resolution]
           ELSE \E outcome \in FinestResolutionOutcomes :
                   call' = [call EXCEPT
                               !.recursed = TRUE,
                               !.raised = IF outcome = "raise" THEN "H3ResDomainError"
                                          ELSE "none",
                               !.returned = IF outcome = "raise" THEN None ELSE Some({})]
    /\ UNCHANGED app_state

call_get_ancestors_up_to_minimum_resolution ==
    /\ call.function = "get_ancestors_up_to_minimum_resolution"
    /\ call.returned = None
    /\ call' = [call EXCEPT !.returned =
                   Some(get_ancestors_up_to_minimum_resolution(
                            call.arguments[1], call.arguments[2]))]
    /\ UNCHANGED app_state

call_get_ancestors_up_to_minimum_resolution_as_pyramid ==
    /\ call.function = "get_ancestors_up_to_minimum_resolution_as_pyramid"
    /\ call.returned = None
    /\ call' = [call EXCEPT !.returned =
                   Some(get_ancestors_up_to_minimum_resolution_as_pyramid(
                            call.arguments[1], call.arguments[2]))]
    /\ UNCHANGED app_state

call_store_elevations_locally ==
    /\ call.function = "store_elevations_locally"
    /\ call.returned = None
    /\ \E order \in ItemOrders(call.arguments[1]) :
          LET result == store_elevations_locally(call.arguments[1], call.arguments[2], order)
          IN  call' = [call EXCEPT !.returned = Some(result.file),
                                   !.raised = result.raised]
    /\ UNCHANGED app_state

NextFunctions ==
    \/ call_store_elevations_locally
    \/ call_get_tile_reference_coordinate
    \/ call_get_descendents_down_to_maximum_resolution
    \/ call_get_ancestors_up_to_minimum_resolution
    \/ call_get_ancestors_up_to_minimum_resolution_as_pyramid

SpecFunctions == InitFunctions /\ [][NextFunctions]_vars

\* --------------------------------------------- the aggregation called directly
\* The maps the aggregation is called on (as the tests do): the children of
\* some of four cells of resolutions 1 and 2, each with its last digit as its
\* elevation.
AggregatedParents == { <<0>>, <<1>>, <<0, 0>>, <<1, 1>> }

AggregationInputs ==
    { [ c \in UNION { { h3_to_children(parent)[i] : i \in 1..7 } : parent \in parents }
          |-> <<c[Len(c)], 1>> ] :
        parents \in SUBSET AggregatedParents \ {{}} }

InitAggregation ==
    /\ MINIMUM_RESOLUTION \in 1..2
    /\ MAXIMUM_RESOLUTION = 3
    /\ DELETE_DOWNLOADED_TILES_AFTER_RUN = TRUE
    /\ h3_cells = <<>>
    /\ tiles = None
    /\ downloaded_tile_paths = <<>>
    /\ temporary_files = {}
    /\ created = 0
    /\ pc = "aggregating"
    /\ error = "none"
    /\ cleanup_error = "none"
    /\ coordinates = EmptyMap
    /\ to_fetch = {}
    /\ loading = EmptyMap
    /\ cells_and_elevations \in AggregationInputs
    /\ pyramid = <<>>
    /\ level = 0
    /\ level_todo = {}
    /\ clean_index = 1
    /\ runs = 0
    /\ run_base = 0
    /\ fetch_log = EmptyMap
    /\ stored = <<>>
    /\ remove_attempts = <<>>
    /\ offender = NoOffender
    /\ sample = NoSample
    /\ call = Entered("_add_average_elevations_for_ancestors_up_to_minimum_resolution",
                      <<cells_and_elevations>>)

\* The method returns when the position after it is reached, and has raised
\* when the exception is on its way out.
NextAggregation ==
    \/ build_pyramid
    \/ \E ancestor \in level_todo : add_average_elevation(ancestor)

SpecAggregation == InitAggregation /\ [][NextAggregation]_vars

\* ===================================================================== claims
Range(f) == { f[x] : x \in DOMAIN f }

\* The ancestors whose elevation this step computes and stores: the one
\* the inner loop of the aggregation has just left, unless it raised.
Averaged ==
    IF pc = "aggregating" /\ level >= 1 /\ pc' # "cleaning"
    THEN IF pc' = "aggregating" /\ level' = level
         THEN level_todo \ level_todo'
         ELSE level_todo
    ELSE {}

\* C1: during aggregation the level index only moves from one level to the
\* next, and whenever the elevation of an ancestor is computed that ancestor
\* belongs to the level being processed, all 7 of its children already have an
\* entry in the map, every cell of every earlier (finer) level has been written
\* and no cell of a later (coarser) level has.
C1_LevelsInOrder ==
    [][ pc = "aggregating" =>
          /\ pc' = "aggregating" => level' \in {level, level + 1}
          /\ \A a \in Averaged :
                /\ level \in 1..Len(pyramid)
                /\ a \in pyramid[level]
                /\ a \in DOMAIN cells_and_elevations'
                /\ \A i \in 1..7 : h3_to_children(a)[i] \in DOMAIN cells_and_elevations
                /\ \A j \in 1..Len(pyramid) :
                      /\ j < level => pyramid[j] \subseteq DOMAIN cells_and_elevations
                      /\ j > level => pyramid[j] \cap DOMAIN cells_and_elevations = {} ]_vars

\* The coarsest of two levels is about to be averaged: the finer one is written.
C1_Witness ==
    /\ pc = "aggregating"
    /\ Len(pyramid) = 2
    /\ level = 2
    /\ Cardinality(pyramid[1]) = 7
    /\ pyramid[1] \subseteq DOMAIN cells_and_elevations
    /\ level_todo = pyramid[2]

\* The minimum resolution ancestors of the input cells, read off the cells.
MinimumResolutionAncestors ==
    { SubSeq(h3_cells[i], 1, MINIMUM_RESOLUTION) : i \in 1..Len(h3_cells) }

\* Every cell from the minimum to the maximum resolution under those ancestors.
ExpectedKeys ==
    UNION { { a \o suffix : suffix \in [1..k -> 0..6] } :
              a \in MinimumResolutionAncestors,
              k \in 0..(MAXIMUM_RESOLUTION - MINIMUM_RESOLUTION) }

\* C2: with min_resolution < max_resolution, the key set of a map handed to
\* storage is exactly the cells of every resolution from min_resolution to
\* max_resolution that descend from (or are) the inputs' min_resolution
\* ancestors.
C2_KeySetIsComplete ==
    MINIMUM_RESOLUTION < MAXIMUM_RESOLUTION =>
        \A k \in 1..Len(stored) : DOMAIN stored[k] = ExpectedKeys

\* A run on inputs of different resolutions under two ancestors has stored.
C2_Witness ==
    /\ pc = "done"
    /\ error = "none"
    /\ Len(stored) = 1
    /\ MINIMUM_RESOLUTION < MAXIMUM_RESOLUTION
    /\ Cardinality(MinimumResolutionAncestors) = 2
    /\ \E i, j \in 1..Len(h3_cells) : Len(h3_cells[i]) # Len(h3_cells[j])
    /\ Cardinality(DOMAIN stored[1]) = 16

\* The cells aggregation has added to the map: those that were not sampled.
AddedAncestors == DOMAIN cells_and_elevations \ DOMAIN coordinates

\* C3: the elevation stored for an ancestor added by aggregation is the sum of
\* the elevations stored for its 7 children, divided by 7.
C3_AncestorIsMeanOfChildren ==
    \A a \in AddedAncestors :
        /\ \A i \in 1..7 : h3_to_children(a)[i] \in DOMAIN cells_and_elevations
        /\ Rat(7 * cells_and_elevations[a][1], cells_and_elevations[a][2])
             = SeqSum([i \in 1..7 |-> cells_and_elevations[h3_to_children(a)[i]]])

\* Children valued 0..6 give 3, children all equal to 5 give 5, and a level of
\* means is averaged again at the level above.
C3_Witness ==
    /\ pc = "storing"
    /\ \E a \in AddedAncestors :
          /\ \A i \in 1..7 : cells_and_elevations[h3_to_children(a)[i]] = <<i - 1, 1>>
          /\ cells_and_elevations[a] = <<3, 1>>
    /\ \E a \in AddedAncestors :
          /\ \A i \in 1..7 : cells_and_elevations[h3_to_children(a)[i]] = <<5, 1>>
          /\ cells_and_elevations[a] = <<5, 1>>
    /\ \E a \in AddedAncestors :
          /\ h3_get_resolution(a) = MAXIMUM_RESOLUTION - 2
          /\ cells_and_elevations[a][2] = 49

\* Validation, tile loading and sampling have all succeeded in this run.
FrontierSampled ==
    /\ error \notin {"ValueError", "ClientError404", "TransportError", "RasterioIOError"}
    /\ tiles # None
    /\ DOMAIN coordinates \subseteq DOMAIN cells_and_elevations

\* The frontier map: the sampled elevation of every maximum resolution cell.
FrontierMap ==
    [c \in DOMAIN coordinates |-> get_elevation(tiles, coordinates[c][1], coordinates[c][2])[2]]

\* C4: with min_resolution = max_resolution a run whose frontier was sampled
\* hands exactly the frontier map to storage and raises nothing in between.
C4_EqualResolutionsSkipAggregation ==
    ( /\ MINIMUM_RESOLUTION = MAXIMUM_RESOLUTION
      /\ pc = "done"
      /\ FrontierSampled )
    => /\ error # "KeyError"
       /\ Len(stored) = 1
       /\ stored[1] = FrontierMap

\* The paths registered since this run began.
RegisteredInRun ==
    { downloaded_tile_paths[k] : k \in (run_base + 1)..Len(downloaded_tile_paths) }

\* C5: when run() is over, however it ended, no temporary file registered
\* during it is left.  Stated for the configuration that deletes tiles, and not
\* counting a file whose own os.remove raised.
C5_RegisteredFilesRemoved ==
    (pc = "done" /\ DELETE_DOWNLOADED_TILES_AFTER_RUN)
    => \A file \in RegisteredInRun :
          file \notin temporary_files \/ file \in Range(remove_attempts)

\* C6: every temporary file that exists is in the registry of downloaded
\* tiles, exactly once.
C6_TemporaryFilesRegistered ==
    \A file \in temporary_files :
        Cardinality({ k \in 1..Len(downloaded_tile_paths) :
                        downloaded_tile_paths[k] = file }) = 1

\* C7: when a run that deletes its tiles is over, os.remove has been called
\* once on every registered path, whether or not a removal failed.
C7_EveryRegisteredFileAttempted ==
    (pc = "done" /\ DELETE_DOWNLOADED_TILES_AFTER_RUN)
    => \A k \in 1..Len(downloaded_tile_paths) :
          Cardinality({ n \in 1..Len(remove_attempts) :
                          remove_attempts[n] = downloaded_tile_paths[k] }) = 1

\* The tile references the object store has reported a given outcome for.
FetchedWith(outcome) ==
    { r \in DOMAIN fetch_log : outcome \in Range(fetch_log[r]) }

\* C8: a tile the object store reports missing is fetched once, cached as a
\* null tile, and does not abort the run.
C8_MissingTileIsCachedAsNull ==
    \A r \in FetchedWith("not_found") :
        /\ error # "ClientError404"
        /\ Len(fetch_log[r]) = 1
        /\ r \in DOMAIN loading
        /\ loading[r] = None

\* The cache holds a null tile for the reference of the sampled coordinate.
SampledTileIsNull ==
    LET reference == get_tile_reference_coordinate(sample.latitude, sample.longitude)
    IN  /\ tiles # None
        /\ reference \in DOMAIN tiles[1]
        /\ tiles[1][reference] = None

\* C9: sampling a coordinate whose cached tile is null returns 0.0 and raises
\* nothing.
C9_NullTileSamplesZero ==
    (sample.outcome # "none" /\ SampledTileIsNull)
    => (sample.outcome = "ok" /\ sample.value = <<0, 1>>)

\* C10: once a tile fetch has failed for a reason other than 'not found', the
\* run is in or past its cleanup with that failure as its exception, nothing
\* has been handed to storage, and no further tile is fetched in the run.
C10_TransportFailureAborts ==
    [][ /\ ( FetchedWith("transport_failure") # {}
               => /\ pc \in {"cleaning", "done"}
                  /\ error = "TransportError"
                  /\ stored = <<>> )'
        /\ (FetchedWith("transport_failure") # {} /\ pc' # "validating")
               => fetch_log' = fetch_log ]_vars

\* A fetch failed while another tile was still to be fetched; the run is over.
C10_Witness ==
    /\ pc = "done"
    /\ FetchedWith("transport_failure") # {}
    /\ \E r \in to_fetch : r \notin DOMAIN fetch_log
    /\ stored = <<>>

\* The positions of the input cells whose resolution is outside the bounds.
OutsideBounds ==
    { i \in 1..Len(h3_cells) :
        Len(h3_cells[i]) \notin MINIMUM_RESOLUTION..MAXIMUM_RESOLUTION }

\* C11: once validation is over, a ValueError has been raised if and only if
\* some input cell has a resolution below the minimum or above the maximum
\* (cells of exactly the minimum or the maximum are accepted), and the error
\* names an input cell of such a resolution together with that resolution.
C11_ValidationRejectsExactlyOutOfRange ==
    pc \notin {"idle", "validating"} =>
        /\ (error = "ValueError") <=> (OutsideBounds # {})
        /\ error = "ValueError" =>
              /\ \E i \in OutsideBounds : offender.cell = h3_cells[i]
              /\ offender.resolution = Len(offender.cell)
        /\ error # "ValueError" => offender = NoOffender

\* A cell of exactly the minimum resolution was passed over and a later cell,
\* one level finer than the maximum, is the one the error names.
C11_Witness ==
    /\ error = "ValueError"
    /\ Len(h3_cells) = 2
    /\ Len(h3_cells[1]) = MINIMUM_RESOLUTION
    /\ offender.cell = h3_cells[2]
    /\ offender.resolution = MAXIMUM_RESOLUTION + 1

\* C12: in a run whose input has an out-of-range cell, at whatever position,
\* nothing happens after validation but cleanup: no descendent is computed, no
\* tile is fetched, no temporary file is created, no elevation is read and
\* nothing is handed to storage.
C12_NoInputOutputAfterFailedValidation ==
    (OutsideBounds # {} /\ pc # "idle") =>
        /\ pc \in {"validating", "cleaning", "done"}
        /\ coordinates = EmptyMap
        /\ fetch_log = EmptyMap
        /\ created = 0
        /\ tiles = None
        /\ cells_and_elevations = EmptyMap
        /\ stored = <<>>

\* The run is over; the out-of-range cell came after a cell that is in range.
C12_Witness ==
    /\ pc = "done"
    /\ error = "ValueError"
    /\ Len(h3_cells) = 2
    /\ 1 \notin OutsideBounds
    /\ 2 \in OutsideBounds
    /\ fetch_log = EmptyMap
    /\ stored = <<>>

\* The stage of run() a position belongs to, and the stages in their order.
Stage(position) ==
    CASE position = "validating" -> 1
      [] position = "expanding" -> 2
      [] position \in {"downloading", "sampling"} -> 3
      [] position = "aggregating" -> 4
      [] position = "storing" -> 5
      [] position = "cleaning" -> 6
      [] position \in {"idle", "done"} -> 7

\* C13: within a run the stages follow one another in the order Validating,
\* Expanding, Sampling, Aggregating, Storing, Cleaning: a stage is left only for
\* the next one or for Cleaning, a run ends only out of Cleaning, and the
\* storage sink is invoked at most once in a run, in the Storing stage, with no
\* error raised and with validation, expansion, sampling and aggregation done.
C13_StagesInOrder ==
    [][ /\ Stage(pc') # Stage(pc) =>
              IF Stage(pc) = 7 THEN Stage(pc') = 1
              ELSE Stage(pc') = Stage(pc) + 1 \/ Stage(pc') = 6
        /\ (stored' # stored /\ pc' # "validating") =>
              /\ pc = "storing"
              /\ error = "none"
              /\ stored = <<>>
              /\ Len(stored') = 1
              /\ OutsideBounds = {}
              /\ tiles # None
              /\ DOMAIN coordinates \subseteq DOMAIN cells_and_elevations
              /\ \A j \in 1..Len(pyramid) : pyramid[j] \subseteq DOMAIN cells_and_elevations ]_vars

\* A run has gone through every stage: it aggregated, stored and removed files.
C13_Witness ==
    /\ pc = "done"
    /\ error = "none"
    /\ Len(stored) = 1
    /\ Len(pyramid) >= 1
    /\ Len(remove_attempts) >= 2
    /\ temporary_files = {}

\* The frontier cells whose centrepoint has the given tile reference.
FrontierCellsIn(reference) ==
    { c \in DOMAIN coordinates :
        get_tile_reference_coordinate(coordinates[c][1], coordinates[c][2]) = reference }

\* C14: within a run every tile reference that is fetched is fetched once,
\* however many frontier cells have that reference, and at least one frontier
\* cell does have it.
C14_TilesFetchedOnceAndOnlyIfNeeded ==
    \A reference \in DOMAIN fetch_log :
        /\ Len(fetch_log[reference]) = 1
        /\ FrontierCellsIn(reference) # {}

\* Two tiles have been fetched and one of them holds several frontier cells.
C14_Witness ==
    /\ pc = "sampling"
    /\ Cardinality(DOMAIN fetch_log) = 2
    /\ \E reference \in DOMAIN fetch_log : Cardinality(FrontierCellsIn(reference)) >= 7

\* C15: tile loading fetches no tile whose reference is already in the tile
\* cache, and the entries an earlier call cached are still in the cache after
\* a later call.  Stated for a second run() of an App whose first run cached
\* every tile its input needs.
C15_CachedTilesNotFetchedAgain ==
    runs >= 2 =>
        /\ pc = "downloading" => DOMAIN fetch_log \cap DOMAIN tiles[1] = {}
        /\ required_tile_references \subseteq DOMAIN tiles[1]

\* A call of the named function has returned.
Returned(function) == call.function = function /\ call.returned # None

\* C16: the reference coordinate returned for a latitude and a longitude is
\* their floor: on both axes reference <= coordinate < reference + 1 (in
\* degrees), whatever the sign of the coordinate and whether or not it is a
\* whole number of degrees.
C16_ReferenceIsFloor ==
    Returned("get_tile_reference_coordinate") =>
        \A axis \in 1..2 :
            /\ call.returned[1][axis] * Degree <= call.arguments[axis]
            /\ call.arguments[axis] < (call.returned[1][axis] + 1) * Degree

\* 7 to the power of n.
RECURSIVE PowerOf7(_)
PowerOf7(n) == IF n = 0 THEN 1 ELSE 7 * PowerOf7(n - 1)

\* C19: for a cell of a resolution up to the maximum the function returns
\* exactly the cells of the maximum resolution that descend from the cell (the
\* cell itself if it is of the maximum resolution): 7 to the power of the
\* difference in resolution of them.
C19_DescendentsAreExactlyThoseOfMaximumResolution ==
    ( /\ Returned("get_descendents_down_to_maximum_resolution")
      /\ Len(call.arguments[1]) <= call.arguments[2] ) =>
        LET cell == call.arguments[1]
            maximum_resolution == call.arguments[2]
            depth == maximum_resolution - Len(cell)
        IN  /\ call.returned[1] = { cell \o suffix : suffix \in [1..depth -> 0..6] }
            /\ Cardinality(call.returned[1]) = PowerOf7(depth)
            /\ \A descendent \in call.returned[1] : Len(descendent) = maximum_resolution
            /\ depth = 0 => call.returned[1] = {cell}

\* The function has returned the 49 descendents two levels below a cell.
C19_Witness ==
    /\ Returned("get_descendents_down_to_maximum_resolution")
    /\ call.arguments[2] = Len(call.arguments[1]) + 2
    /\ Cardinality(call.returned[1]) = 49

\* C20: for a cell finer than the minimum resolution the function returns the
\* cell's parent, then the parent of each element before, down to an element
\* of the minimum resolution, as many elements as the difference in
\* resolution; for a cell of the minimum resolution it returns the cell alone.
C20_AncestorsAreTheChainOfParents ==
    ( /\ Returned("get_ancestors_up_to_minimum_resolution")
      /\ Len(call.arguments[1]) >= call.arguments[2] ) =>
        LET cell == call.arguments[1]
            minimum_resolution == call.arguments[2]
            ancestors == call.returned[1]
        IN  IF Len(cell) = minimum_resolution THEN ancestors = <<cell>>
            ELSE /\ Len(ancestors) = Len(cell) - minimum_resolution
                 /\ ancestors[1] = SubSeq(cell, 1, Len(cell) - 1)
                 /\ \A i \in 2..Len(ancestors) :
                       ancestors[i] = SubSeq(ancestors[i - 1], 1, Len(ancestors[i - 1]) - 1)
                 /\ Len(ancestors[Len(ancestors)]) = minimum_resolution

\* The function has returned the three ancestors of a resolution 4 cell.
C20_Witness ==
    /\ Returned("get_ancestors_up_to_minimum_resolution")
    /\ Len(call.arguments[1]) = 4
    /\ call.arguments[2] = 1
    /\ Len(call.returned[1]) = 3

\* The ancestors of the level being processed that have a child without an
\* entry in the elevation map.
LackingChild ==
    { a \in level_todo :
        \E child \in Range(h3_to_children(a)) : child \notin DOMAIN cells_and_elevations }

\* C17: a step of the aggregation loop on an ancestor one of whose children has
\* no entry in the map raises an error and leaves the map as it is: every
\* entry the loop adds is for an ancestor whose 7 children all had an entry,
\* and a run in which the lookup failed is in cleanup or over, with that error
\* and with nothing handed to storage.
C17_MissingChildAborts ==
    [][ /\ (pc = "aggregating" /\ level >= 1) =>
              /\ \A a \in DOMAIN cells_and_elevations' \ DOMAIN cells_and_elevations :
                    /\ a \notin LackingChild
                    /\ Range(h3_to_children(a)) \subseteq DOMAIN cells_and_elevations
              /\ LackingChild = level_todo =>
                    /\ error' = "KeyError"
                    /\ pc' = "cleaning"
                    /\ cells_and_elevations' = cells_and_elevations
        /\ ( error = "KeyError" =>
               /\ pc \in {"cleaning", "done"}
               /\ stored = <<>> )' ]_vars

\* The children of a frontier cell were looked up: the run is over with the
\* error, the map holds the sampled cells alone and nothing was stored.
C17_Witness ==
    /\ pc = "done"
    /\ error = "KeyError"
    /\ stored = <<>>
    /\ cells_and_elevations # EmptyMap
    /\ DOMAIN cells_and_elevations = DOMAIN coordinates

\* C18: a step of the aggregation changes no entry the map already has, be it
\* of a frontier cell or of an ancestor written before, and adds at most one
\* entry, for the ancestor it visits, which had none; when the aggregation is
\* over every cell of the pyramid has its entry and the entries of the
\* frontier cells are the sampled elevations.
C18_EntriesWrittenOnce ==
    [][ pc = "aggregating" =>
          /\ \A c \in DOMAIN cells_and_elevations :
                /\ c \in DOMAIN cells_and_elevations'
                /\ cells_and_elevations'[c] = cells_and_elevations[c]
          /\ DOMAIN cells_and_elevations' \ DOMAIN cells_and_elevations = Averaged
          /\ Cardinality(Averaged) <= 1
          /\ pc' = "storing" =>
                /\ \A j \in 1..Len(pyramid) : pyramid[j] \subseteq DOMAIN cells_and_elevations'
                /\ \A c \in DOMAIN coordinates :
                      cells_and_elevations'[c] =
                          get_elevation(tiles, coordinates[c][1], coordinates[c][2])[2] ]_vars

\* Two levels have been written over a frontier that is not flat.
C18_Witness ==
    /\ pc = "storing"
    /\ Len(pyramid) = 2
    /\ \A j \in 1..2 : pyramid[j] \subseteq DOMAIN cells_and_elevations
    /\ \E c, d \in DOMAIN coordinates : cells_and_elevations[c] # cells_and_elevations[d]
    /\ [c \in DOMAIN coordinates |-> cells_and_elevations[c]] = FrontierMap

\* A call of the named function has returned or raised.
Finished(function) ==
    call.function = function /\ (call.returned # None \/ call.raised # "none")

\* The parents of a set of cells, read off the cells.
ParentsOf(cells) == { SubSeq(c, 1, Len(c) - 1) : c \in cells }

\* C21: for a batch of cells of one resolution r, finer than the minimum, the
\* first level of the pyramid is the set of the parents of the batch, every
\* further level is the set of the parents of the level before, the cells of
\* the i-th level (counting from 1) have resolution r - i, and the last level
\* is the set of the minimum resolution ancestors of the batch.
C21_PyramidLevelsAreSetsOfParents ==
    ( /\ Returned("get_ancestors_up_to_minimum_resolution_as_pyramid")
      /\ call.arguments[1] # {}
      /\ BatchResolution(call.arguments[1]) > call.arguments[2] ) =>
        LET cells == call.arguments[1]
            minimum_resolution == call.arguments[2]
            levels == call.returned[1]
        IN  /\ Len(levels) >= 1
            /\ levels[1] = ParentsOf(cells)
            /\ \A i \in 1..(Len(levels) - 1) : levels[i + 1] = ParentsOf(levels[i])
            /\ \A i \in 1..Len(levels) :
                  \A c \in levels[i] : Len(c) = BatchResolution(cells) - i
            /\ levels[Len(levels)] = { SubSeq(c, 1, minimum_resolution) : c \in cells }

\* The pyramid of four resolution 3 cells under three parents and two
\* grandparents has been returned, up to resolution 0.
C21_Witness ==
    /\ Returned("get_ancestors_up_to_minimum_resolution_as_pyramid")
    /\ Cardinality(call.arguments[1]) = 4
    /\ call.arguments[2] = 0
    /\ Len(call.returned[1]) = 3
    /\ Cardinality(call.returned[1][1]) = 3
    /\ Cardinality(call.returned[1][2]) = 2
    /\ call.returned[1][3] = {<<>>}

\* C22: for a batch, not empty, of cells of one resolution r, not coarser than
\* the minimum, the pyramid has r minus the minimum resolution levels; none if
\* the cells are of the minimum resolution.
C22_PyramidHasOneLevelPerResolution ==
    ( /\ Returned("get_ancestors_up_to_minimum_resolution_as_pyramid")
      /\ call.arguments[1] # {} ) =>
        Len(call.returned[1]) = BatchResolution(call.arguments[1]) - call.arguments[2]

\* C23: called on a cell finer than the maximum resolution, the function
\* raises an invalid resolution error, without having recursed into the
\* children of the cell and without returning a set.
C23_FinerThanMaximumIsRejected ==
    ( /\ Finished("get_descendents_down_to_maximum_resolution")
      /\ Len(call.arguments[1]) > call.arguments[2] ) =>
        /\ call.raised = "InvalidResolution"
        /\ call.returned = None
        /\ ~call.recursed

\* C24: called on a cell coarser than the minimum resolution, the function
\* raises an error and returns no list.
C24_CoarserThanMinimumIsRejected ==
    ( /\ Finished("get_ancestors_up_to_minimum_resolution")
      /\ Len(call.arguments[1]) < call.arguments[2] ) =>
        /\ call.raised # "none"
        /\ call.returned = None

\* C25: called on a path where there is a JSON array, no file, or a file that
\* cannot be parsed, store_elevations_locally raises nothing and leaves at the path
\* a JSON array: the entries that were there (none for a missing or
\* unparseable file), unchanged and in order, followed by one [cell, elevation]
\* pair for each entry of the map.
C25_PairsAppendedToPersistedArray ==
    ( /\ Finished("store_elevations_locally")
      /\ call.arguments[2].kind \in {"missing", "unparseable", "undecodable", "array"} ) =>
        LET elevations == call.arguments[1]
            before == IF call.arguments[2].kind = "array"
                      THEN call.arguments[2].entries ELSE <<>>
            after == call.returned[1]
            added == Cardinality(DOMAIN elevations)
        IN  /\ call.raised = "none"
            /\ after.kind = "array"
            /\ Len(after.entries) = Len(before) + added
            /\ SubSeq(after.entries, 1, Len(before)) = before
            /\ \A c \in DOMAIN elevations :
                  \E i \in (Len(before) + 1)..Len(after.entries) :
                      after.entries[i] = <<c, <<"float", elevations[c][2]>>>>

\* C26: when a run is about to sample, the tile cache has an entry for the
\* tile reference of the centrepoint of every frontier cell, and no run ends
\* with the error of a lookup in a cache that is not there or lacks the entry:
\* a run that ended with a KeyError had sampled its whole frontier.
C26_CacheCoversFrontier ==
    /\ pc = "sampling" =>
          /\ tiles # None
          /\ \A c \in DOMAIN coordinates :
                get_tile_reference_coordinate(coordinates[c][1], coordinates[c][2])
                    \in DOMAIN tiles[1]
    /\ error # "TypeError"
    /\ error = "KeyError" =>
          /\ coordinates # EmptyMap
          /\ DOMAIN coordinates \subseteq DOMAIN cells_and_elevations

\* A frontier of 49 cells lying in two tiles is about to be sampled.
C26_Witness ==
    /\ pc = "sampling"
    /\ Cardinality(DOMAIN coordinates) = 49
    /\ Cardinality(DOMAIN tiles[1]) = 2
    /\ \A reference \in DOMAIN tiles[1] : tiles[1][reference] # None

\* The elevation the dataset has at the centrepoint of a cell.
ElevationAtCentrepoint(cell) ==
    LET latitude == h3_to_geo(cell)[1]
        longitude == h3_to_geo(cell)[2]
        reference == get_tile_reference_coordinate(latitude, longitude)
    IN  << Band1(reference, latitude - reference[1] * Degree,
                 longitude - reference[2] * Degree), 1 >>

\* The elevation of a cell as a function of the cell alone: sampled for a cell
\* of the maximum resolution, the mean of the children's otherwise.
RECURSIVE ElevationOf(_)
ElevationOf(cell) ==
    IF Len(cell) >= MAXIMUM_RESOLUTION THEN ElevationAtCentrepoint(cell)
    ELSE LET below == [i \in 1..7 |-> ElevationOf(Append(cell, i - 1))]
             total == SeqSum(below)
         IN  Rat(total[1], total[2] * 7)

\* The map and the tiles that a set of minimum resolution ancestors determines.
MapOf(ancestors) ==
    [ c \in UNION { { a \o suffix : suffix \in [1..k -> 0..6] } :
                      a \in ancestors, k \in 0..(MAXIMUM_RESOLUTION - MINIMUM_RESOLUTION) }
        |-> ElevationOf(c) ]

TilesOf(ancestors) ==
    { get_tile_reference_coordinate(h3_to_geo(c)[1], h3_to_geo(c)[2]) :
        c \in { d \in DOMAIN MapOf(ancestors) : Len(d) = MAXIMUM_RESOLUTION } }

\* C27: the map a run hands to storage, and the set of tiles it has fetched,
\* are those determined by the set of the minimum resolution ancestors of the
\* input cells, whatever the order of the input cells, their repetitions and
\* their resolutions.
C27_MapDependsOnAncestorsOnly ==
    \A k \in 1..Len(stored) :
        /\ stored[k] = MapOf(MinimumResolutionAncestors)
        /\ DOMAIN fetch_log = TilesOf(MinimumResolutionAncestors)

\* A run on two different cells with one minimum resolution ancestor has
\* stored its map.
C27_Witness ==
    /\ pc = "done"
    /\ Len(stored) = 1
    /\ Len(h3_cells) = 2
    /\ h3_cells[1] # h3_cells[2]
    /\ Len(h3_cells[1]) > Len(h3_cells[2])
    /\ Cardinality(MinimumResolutionAncestors) = 1
    /\ stored[1] # EmptyMap

\* The sum of the elevations of a set of cells of one resolution in the map,
\* taken digit by digit from the given position of their indexes.
RECURSIVE SumOver(_, _)
SumOver(cells, position) ==
    IF cells = {} THEN <<0, 1>>
    ELSE IF Cardinality(cells) = 1
    THEN cells_and_elevations[CHOOSE c \in cells : TRUE]
    ELSE SeqSum([digit \in 1..7 |->
                    SumOver({ c \in cells : c[position] = digit - 1 }, position + 1)])

\* The frontier cells that descend from a cell.
FrontierBelow(cell) ==
    { c \in DOMAIN coordinates : SubSeq(c, 1, Len(cell)) = cell }

\* C28: when the aggregation is over, the elevation of an ancestor k levels
\* above the frontier is the sum of the elevations of its maximum resolution
\* descendents, all 7^k of them, divided by 7^k.
C28_AncestorIsMeanOfFrontierBelow ==
    pc = "storing" =>
        \A a \in AddedAncestors :
            LET below == FrontierBelow(a)
                total == SumOver(below, Len(a) + 1)
            IN  /\ Cardinality(below) = PowerOf7(MAXIMUM_RESOLUTION - Len(a))
                /\ cells_and_elevations[a] = Rat(total[1], total[2] * Cardinality(below))

\* An ancestor two levels above a frontier that is not flat has its mean.
C28_Witness ==
    /\ pc = "storing"
    /\ \E a \in AddedAncestors :
          /\ Len(a) = MAXIMUM_RESOLUTION - 2
          /\ Cardinality(FrontierBelow(a)) = 49
          /\ cells_and_elevations[a][2] = 49
          /\ \E c, d \in FrontierBelow(a) : cells_and_elevations[c] # cells_and_elevations[d]

\* C29: when run() is over, the registry of downloaded tile paths holds no path
\* of a file that is no longer there, and no cleanup has failed on a registered
\* path whose file was already gone.
C29_RegistryHoldsNoRemovedFile ==
    pc = "done" =>
        /\ \A k \in 1..Len(downloaded_tile_paths) :
              downloaded_tile_paths[k] \in temporary_files
        /\ cleanup_error = "OSError" =>
              downloaded_tile_paths[clean_index] \in temporary_files

\* The aggregation, called directly on a map, has returned.
AggregationReturned ==
    /\ call.function = "_add_average_elevations_for_ancestors_up_to_minimum_resolution"
    /\ pc = "storing"

\* C30: when the aggregation returns from a call on a map whose keys are not
\* all of one resolution, the map has an entry for every ancestor, up to the
\* minimum resolution, of every key: the parent of every key finer than the
\* minimum resolution is a key.
C30_NoAncestorLeftOut ==
    ( /\ AggregationReturned
      /\ \E c, d \in DOMAIN call.arguments[1] : Len(c) # Len(d) ) =>
        \A c \in DOMAIN cells_and_elevations :
            Len(c) > MINIMUM_RESOLUTION =>
                SubSeq(c, 1, Len(c) - 1) \in DOMAIN cells_and_elevations

====
